---- MODULE Spec2Model ----
(***************************************************************************)
(* CVAS funnel reports: generate_category_report.py and                    *)
(* generate_services_report.py.  Each script reads the 'Export' sheet of   *)
(* a workbook (one row per category / service, one column per metric),     *)
(* pivots it to one row per metric and one column per category / service   *)
(* in a hardcoded order, and writes the result to a workbook.              *)
(*                                                                         *)
(* A pandas DataFrame read from the sheet is modelled as                    *)
(*   [columns : sequence of header names,                                  *)
(*    rows    : sequence of [key : value of the key column,                *)
(*                           cells : metric column name -> cell]]          *)
(* and a pivoted DataFrame as                                              *)
(*   [index : sequence of row labels, columns : sequence of column names,  *)
(*    data  : column name -> (row label -> cell)].                         *)
(* A cell is [isna, v]: NaN is a cell with isna = TRUE.                    *)
(***************************************************************************)
EXTENDS Integers, Sequences, FiniteSets

VARIABLES
    variant,          \* which script runs: "category" or "services"
    has_input_arg,    \* len(sys.argv) >= 2
    pc,               \* position in main()
    df,               \* the DataFrame read from the 'Export' sheet
    df_transformed,   \* services: result of transform_data
    output_df,        \* the table handed to save_output
    steps,            \* the steps of main() entered so far, in order
    failed,           \* the function in which the run failed ("" if none)
    exit_code,        \* process exit status, meaningful when pc = "exit"
    out_dir_created,  \* the run created the output directory
    out_file          \* the output file of this run: "absent", "partial"
                      \* (opened, not completely saved) or "written"

vars == <<variant, has_input_arg, pc, df, df_transformed, output_df, steps,
          failed, exit_code, out_dir_created, out_file>>

(***************************************************************************)
(* Bounds of the model                                                     *)
(***************************************************************************)
MaxRows == 1

(***************************************************************************)
(* Sequences                                                               *)
(***************************************************************************)
Range(s) == {s[i] : i \in DOMAIN s}

IndexOf(s, x) == CHOOSE i \in DOMAIN s : s[i] = x

(***************************************************************************)
(* Cells                                                                    *)
(***************************************************************************)
NaN == [isna |-> TRUE, v |-> 0]

Num(n) == [isna |-> FALSE, v |-> n]

\* pandas Series addition: NaN propagates
Add(a, b) == IF a.isna \/ b.isna THEN NaN ELSE Num(a.v + b.v)

\* the blank key cell, read by pandas as NaN
NaNKey == "<NaN>"

\* the value a row carries for the key column when the sheet has no such column
NoKey == "<no key column>"

\* elementwise ==: NaN equals nothing, itself included
KeyEq(a, b) == a # NaNKey /\ b # NaNKey /\ a = b

(***************************************************************************)
(* Hardcoded structure: the 18 metrics of both scripts, the 10 categories  *)
(* and the 13 services.                                                    *)
(***************************************************************************)
metric_order ==
    <<"[TopLine_Revenue]", "[Base_usuarios]", "[v_Activaciones_Revenue]",
      "[v__Activaciones]", "[v_Renovaciones_Revenue]", "[v_Renovaciones]",
      "[v_Rfnds]", "[Rfnds_U_U]", "[Total_Refnds]", "[v__Churn_from_act2]",
      "[v__Chur_prev_base]", "[v__Churn]", "[v_Auto_Ref]", "[Auto_Ref_UU]",
      "[Automatic_Refund_Amount]", "[v_Reg_Ref]", "[Reg_Ref_UU]",
      "[Reg_Refund_Amount]">>

categories ==
    <<"Beauty and Health", "Free Time", "Games", "Education", "Images",
      "Kids", "Light", "Music", "News", "Sports">>

service_order ==
    <<"IntimaX", "Rincon Prohibido", "The Tourist", "El Mundo Al Revés",
      "Noticias Emocion", "Deportes emocion", "Cuidate Mejor",
      "Sexducate con LB", "Yo Mujer y +", "Slow Life", "Movistar Juegos",
      "Kids Play", "Smile & Learn">>

category_col == "Master_CPC[TME Category]"

service_col == "Master_CPC[Service Name]"

\* col.startswith('[') and col.endswith(']')
IsBracketed(col) ==
    /\ Len(col) >= 1
    /\ SubSeq(col, 1, 1) = "["
    /\ SubSeq(col, Len(col), Len(col)) = "]"

(***************************************************************************)
(* DataFrames                                                              *)
(***************************************************************************)
NoDF == [columns |-> <<>>, rows |-> <<>>]

EmptyFrame(index) ==
    [index |-> index, columns |-> <<>>, data |-> [c \in {} |-> <<>>]]

NoTable == EmptyFrame(<<>>)

\* df[df[key_col] == value]: the matching rows, each a Series whose index is
\* the header row
MatchingRows(d, value) ==
    LET index == Range(d.columns)
        matching == SelectSeq(d.rows, LAMBDA r : KeyEq(r.key, value))
    IN  [i \in DOMAIN matching |->
            [key |-> matching[i].key, cells |-> matching[i].cells,
             index |-> index]]

\* .iloc[0]
FirstRow(rows) == rows[1]

\* t[column] = values for a column that t may not have yet: a new column
\* goes to the right, an old one keeps its place
WithColumn(t, column, values) ==
    LET cols == IF column \in Range(t.columns) THEN t.columns
                ELSE Append(t.columns, column)
    IN  [index |-> t.index, columns |-> cols,
         data |-> [c \in Range(cols) |->
                     IF c = column THEN values ELSE t.data[c]]]

\* output_df[column] = value
SetColumn(t, column, value) ==
    WithColumn(t, column, [m \in Range(t.index) |-> value])

\* output_df.fillna(0)
FillNa(t) ==
    [t EXCEPT !.data =
        [c \in DOMAIN t.data |->
            LET values == t.data[c]
            IN  [m \in DOMAIN values |->
                    IF values[m].isna THEN Num(0) ELSE values[m]]]]

\* output_df.insert(loc, column, values), loc counted from 0
Insert(t, loc, column, values) ==
    LET cols == SubSeq(t.columns, 1, loc) \o <<column>>
                \o SubSeq(t.columns, loc + 1, Len(t.columns))
    IN  [index |-> t.index, columns |-> cols,
         data |-> [c \in Range(cols) |->
                     IF c = column THEN values ELSE t.data[c]]]

\* transformed_data[column] = values; a key already in the dict keeps its place
SetValues(t, column, values) == WithColumn(t, column, values)

(***************************************************************************)
(* generate_category_report.py: transform_to_column_format                 *)
(***************************************************************************)
\* for metric in metrics: output_df.loc[metric, category] = ...: the loop
\* writes every cell of the column of the category, the rows of output_df
\* being the metrics; category_data.index is the header row of the sheet
MapMetrics(category_data, metrics) ==
    [metric \in Range(metrics) |->
        IF metric \in category_data.index THEN category_data.cells[metric]
        ELSE Num(0)]

RECURSIVE ProcessCategories(_, _, _, _)
\* for category in categories: ...
ProcessCategories(out, d, metrics, cats) ==
    IF cats = <<>> THEN out
    ELSE LET category == Head(cats)
             category_row == MatchingRows(d, category)
             next == IF Len(category_row) = 0
                     THEN SetColumn(out, category, Num(0))
                     ELSE WithColumn(out, category,
                                     MapMetrics(FirstRow(category_row),
                                                metrics))
         IN  ProcessCategories(next, d, metrics, Tail(cats))

\* output_df['Education'] + output_df['Images']
EduImgValues(t) ==
    LET education == t.data["Education"]
        images == t.data["Images"]
    IN  [m \in Range(t.index) |-> Add(education[m], images[m])]

\* a variant of EduImgLoc that hands images_idx itself to insert
EduImgLocAtImages(t) == IndexOf(t.columns, "Images") - 1

\* the position handed to insert: images_idx + 1, counted from 0
EduImgLoc(t) == (IndexOf(t.columns, "Images") - 1) + 1

AddEduImg(t) ==
    IF "Education" \in Range(t.columns) /\ "Images" \in Range(t.columns)
    THEN Insert(t, EduImgLoc(t), "Edu+Img", EduImgValues(t))
    ELSE t

\* df[category_col] raises KeyError when the sheet has no such column
TransformRaises(d, key_col) == key_col \notin Range(d.columns)

\* the metric and category lists are hardcoded in the function; they are
\* parameters here so that the same body can run on either vocabulary
TransformToColumnFormat(d, metrics, cats) ==
    AddEduImg(FillNa(ProcessCategories(EmptyFrame(metrics), d, metrics, cats)))

(***************************************************************************)
(* generate_services_report.py                                             *)
(***************************************************************************)
GetMetricColumns(d) == SelectSeq(d.columns, IsBracketed)

\* df['Master_CPC[Service Name]'].tolist()
ServiceNames(d) == [i \in DOMAIN d.rows |-> d.rows[i].key]

\* .iloc[0] on an empty selection raises IndexError: a blank service name
\* selects nothing, because NaN == NaN is False
TransformDataRaises(d) ==
    \E i \in DOMAIN d.rows : Len(MatchingRows(d, d.rows[i].key)) = 0

\* the last record of the service, where the code takes the first
ServiceRowLast(d, service) ==
    LET rows == MatchingRows(d, service) IN rows[Len(rows)]

\* service_row = df[df['Master_CPC[Service Name]'] == service].iloc[0]
ServiceRow(d, service) == FirstRow(MatchingRows(d, service))

RECURSIVE TransformLoop(_, _, _, _)
\* for service in services: transformed_data[service] = service_values
TransformLoop(t, d, metric_cols, services) ==
    IF services = <<>> THEN t
    ELSE LET service == Head(services)
             service_row == ServiceRow(d, service)
             service_values == [m \in Range(metric_cols) |->
                                   service_row.cells[m]]
         IN  TransformLoop(SetValues(t, service, service_values), d,
                           metric_cols, Tail(services))

\* the 'Master_CPC[Service Name]' column of the result holds metric_cols; it
\* is the index of the modelled table
TransformData(d, metric_cols) ==
    TransformLoop(EmptyFrame(metric_cols), d, metric_cols, ServiceNames(d))

\* position of a metric in metric_order (metric_order_map)
SortOrder(order, metric) == IndexOf(order, metric) - 1

RECURSIVE SortFrom(_, _, _)
\* the labels whose sort order is k or more, by sort order
SortFrom(labels, order, k) ==
    IF k >= Len(order) THEN <<>>
    ELSE SelectSeq(labels, LAMBDA m : m = order[k + 1])
         \o SortFrom(labels, order, k + 1)

\* sort_values('_sort_order') of rows whose labels are in metric_order
SortValues(labels, order) == SortFrom(labels, order, 0)

\* df[df[...].isin(metric_order)]
FilterMetrics(t, order) ==
    LET names == Range(order)
    IN  SelectSeq(t.index, LAMBDA m : m \in names)

\* df_filtered[column_order] raises KeyError when a service is no column
ApplyOutputStructureRaises(t, services) ==
    \E s \in Range(services) : s \notin Range(t.columns)

ApplyOutputStructure(t, order, services) ==
    LET index == SortValues(FilterMetrics(t, order), order)
    IN  [index |-> index, columns |-> services,
         data |-> [c \in Range(services) |->
                     LET values == t.data[c]
                     IN  [m \in Range(index) |-> values[m]]]]

(***************************************************************************)
(* The sheets a run can read.  The header row has the key column or not,   *)
(* then the columns '[TopLine_Revenue]' and '[Base_usuarios]', both, one   *)
(* or none, in either order, then nothing, a bracketed column that is no   *)
(* metric, or the sixteen other metrics.  The rows are up to MaxRows       *)
(* records whose key is an expected name, another name or blank and whose  *)
(* cells under the two columns are a number or blank, alone or before or   *)
(* after a listing of one record per expected name.                        *)
(***************************************************************************)
CellValues == {NaN, Num(1), Num(2)}

\* the categories and the services that the records may name
SheetCategories == {"Education", "Images", "Kids"}

SheetServices == {"IntimaX", "Rincon Prohibido"}

KeyValues(names) == names \cup {"Other", NaNKey}

\* the metric columns whose cells vary
SheetMetrics == {"[TopLine_Revenue]", "[Base_usuarios]"}

\* the other metrics, in the order of metric_order
RestOfMetrics == SelectSeq(metric_order, LAMBDA m : m \notin SheetMetrics)

Arrangements(S) ==
    UNION {{s \in [1..n -> S] : \A i, j \in 1..n : i # j => s[i] # s[j]} :
              n \in 0..Cardinality(S)}

MetricArrangements == Arrangements(SheetMetrics)

\* the headers a sheet may carry after those columns
ExtraHeaders == {<<>>, <<"[Extra]">>, RestOfMetrics}

\* the records of a sheet: a key, a cell for each of metric_cols, and the
\* number 1 under each further column
SheetRows(keys, metric_cols, extra_cols) ==
    LET varying == Range(metric_cols)
        fixed == [col \in Range(extra_cols) |-> Num(1)]
    IN  {[key |-> k,
          cells |-> [col \in varying \cup DOMAIN fixed |->
                        IF col \in varying THEN c[col] ELSE fixed[col]]] :
            k \in keys, c \in [varying -> CellValues]}

\* a sheet: its header row and its rows
Sheet(columns, rows) == [columns |-> columns, rows |-> rows]

\* the sequences of n records of a sheet with the key column
RowsWithKey(names, metric_cols, extra_cols, n) ==
    [1..n -> SheetRows(KeyValues(names), metric_cols, extra_cols)]

\* the sequences of n records of a sheet without it
RowsWithoutKey(metric_cols, extra_cols, n) ==
    [1..n -> SheetRows({NoKey}, metric_cols, extra_cols)]

\* one record for each name, in the order of the list, with the number 1 in
\* every cell
Listing(names, cols) ==
    LET cells == [c \in Range(cols) |-> Num(1)]
    IN  [i \in DOMAIN names |-> [key |-> names[i], cells |-> cells]]

ListingPlaces == {"none", "after", "before"}

\* the records rs alone, or with the listing after or before them
WithListing(rs, listing, place) ==
    IF place = "after" THEN rs \o listing
    ELSE IF place = "before" THEN listing \o rs
    ELSE rs

KeyCol == IF variant = "category" THEN category_col ELSE service_col

EntityOrder == IF variant = "category" THEN categories ELSE service_order

(***************************************************************************)
(* main()                                                                  *)
(***************************************************************************)
Init ==
    /\ variant \in {"category", "services"}
    /\ has_input_arg \in BOOLEAN
    /\ pc = "main"
    /\ df = NoDF
    /\ df_transformed = NoTable
    /\ output_df = NoTable
    /\ steps = <<>>
    /\ failed = ""
    /\ exit_code = 0
    /\ out_dir_created = FALSE
    /\ out_file = "absent"

\* sys.exit(1), or an exception that leaves main(): main() of the services
\* script catches Exception and calls sys.exit(1); an exception that leaves
\* main() of the category script ends the interpreter with status 1
Exit1(where) ==
    /\ pc' = "exit"
    /\ exit_code' = 1
    /\ failed' = where

\* len(sys.argv) < 2: usage message, sys.exit(1)
Usage ==
    /\ pc = "main"
    /\ ~has_input_arg
    /\ Exit1("main")
    /\ UNCHANGED <<variant, has_input_arg, df, df_transformed, output_df,
                   steps, out_dir_created, out_file>>

ParseArgs ==
    /\ pc = "main"
    /\ has_input_arg
    /\ pc' = "read"
    /\ UNCHANGED <<variant, has_input_arg, df, df_transformed, output_df,
                   steps, failed, exit_code, out_dir_created, out_file>>

\* read_category_data: pd.read_excel succeeds
ReadCategoryData ==
    /\ pc = "read"
    /\ variant = "category"
    /\ \E a \in MetricArrangements, x \in ExtraHeaders, n \in 0..MaxRows :
          \/ \E rs \in RowsWithKey(SheetCategories, a, x, n),
                 place \in ListingPlaces :
                df' = Sheet(<<category_col>> \o a \o x,
                            WithListing(rs, Listing(categories, a \o x),
                                        place))
          \/ \E rs \in RowsWithoutKey(a, x, n) : df' = Sheet(a \o x, rs)
    /\ steps' = Append(steps, "read")
    /\ pc' = "transform"
    /\ UNCHANGED <<variant, has_input_arg, df_transformed, output_df, failed,
                   exit_code, out_dir_created, out_file>>

\* read_category_data: pd.read_excel raises (no file, no workbook, no
\* 'Export' sheet): the except branch calls sys.exit(1)
ReadCategoryDataError ==
    /\ pc = "read"
    /\ variant = "category"
    /\ steps' = Append(steps, "read")
    /\ Exit1("read")
    /\ UNCHANGED <<variant, has_input_arg, df, df_transformed, output_df,
                   out_dir_created, out_file>>

\* read_input_data: the file exists, pd.read_excel succeeds and the sheet has
\* the service name column
ReadInputData ==
    /\ pc = "read"
    /\ variant = "services"
    /\ \E a \in MetricArrangements, x \in ExtraHeaders, n \in 0..MaxRows :
          \E rs \in RowsWithKey(SheetServices, a, x, n),
             place \in ListingPlaces :
             df' = Sheet(<<service_col>> \o a \o x,
                         WithListing(rs, Listing(service_order, a \o x),
                                     place))
    /\ steps' = Append(steps, "read")
    /\ pc' = "transform"
    /\ UNCHANGED <<variant, has_input_arg, df_transformed, output_df, failed,
                   exit_code, out_dir_created, out_file>>

\* read_input_data raises: FileNotFoundError, an error of pd.read_excel, or
\* ValueError for a sheet without the service name column
ReadInputDataError ==
    /\ pc = "read"
    /\ variant = "services"
    /\ \/ df' = df
       \/ \E a \in MetricArrangements, x \in ExtraHeaders, n \in 0..MaxRows :
             \E rs \in RowsWithoutKey(a, x, n) : df' = Sheet(a \o x, rs)
    /\ steps' = Append(steps, "read")
    /\ Exit1("read")
    /\ UNCHANGED <<variant, has_input_arg, df_transformed, output_df,
                   out_dir_created, out_file>>

\* transform_to_column_format returns
TransformCategory ==
    /\ pc = "transform"
    /\ variant = "category"
    /\ ~TransformRaises(df, category_col)
    /\ output_df' = TransformToColumnFormat(df, metric_order, categories)
    /\ steps' = Append(steps, "transform")
    /\ pc' = "save"
    /\ UNCHANGED <<variant, has_input_arg, df, df_transformed, failed,
                   exit_code, out_dir_created, out_file>>

\* transform_to_column_format raises KeyError, which nothing catches
TransformCategoryError ==
    /\ pc = "transform"
    /\ variant = "category"
    /\ TransformRaises(df, category_col)
    /\ steps' = Append(steps, "transform")
    /\ Exit1("transform")
    /\ UNCHANGED <<variant, has_input_arg, df, df_transformed, output_df,
                   out_dir_created, out_file>>

\* steps 2 and 3 of main(): get_metric_columns, transform_data
TransformServices ==
    /\ pc = "transform"
    /\ variant = "services"
    /\ ~TransformDataRaises(df)
    /\ df_transformed' = TransformData(df, GetMetricColumns(df))
    /\ steps' = Append(steps, "transform")
    /\ pc' = "structure"
    /\ UNCHANGED <<variant, has_input_arg, df, output_df, failed, exit_code,
                   out_dir_created, out_file>>

\* transform_data raises IndexError
TransformServicesError ==
    /\ pc = "transform"
    /\ variant = "services"
    /\ TransformDataRaises(df)
    /\ steps' = Append(steps, "transform")
    /\ Exit1("transform")
    /\ UNCHANGED <<variant, has_input_arg, df, df_transformed, output_df,
                   out_dir_created, out_file>>

\* steps 4 and 5 of main(): get_hardcoded_structure, apply_output_structure
StructureServices ==
    /\ pc = "structure"
    /\ ~ApplyOutputStructureRaises(df_transformed, service_order)
    /\ output_df' = ApplyOutputStructure(df_transformed, metric_order,
                                         service_order)
    /\ pc' = "save"
    /\ UNCHANGED <<variant, has_input_arg, df, df_transformed, steps, failed,
                   exit_code, out_dir_created, out_file>>

\* apply_output_structure raises KeyError
StructureServicesError ==
    /\ pc = "structure"
    /\ ApplyOutputStructureRaises(df_transformed, service_order)
    /\ Exit1("structure")
    /\ UNCHANGED <<variant, has_input_arg, df, df_transformed, output_df,
                   steps, out_dir_created, out_file>>

\* category save_output: df.to_excel(output_file) writes the file
SaveCategory ==
    /\ pc = "save"
    /\ variant = "category"
    /\ out_file' = "written"
    /\ steps' = Append(steps, "store")
    /\ pc' = "preview"
    /\ UNCHANGED <<variant, has_input_arg, df, df_transformed, output_df,
                   failed, exit_code, out_dir_created>>

\* category save_output: df.to_excel raises, either before the file is opened
\* (directory missing, path not writable: no file) or after it (writing or
\* saving the workbook fails: an empty or partial file stays); the except
\* branch calls sys.exit(1)
SaveCategoryError ==
    /\ pc = "save"
    /\ variant = "category"
    /\ out_file' \in {"absent", "partial"}
    /\ steps' = Append(steps, "store")
    /\ Exit1("save")
    /\ UNCHANGED <<variant, has_input_arg, df, df_transformed, output_df,
                   out_dir_created>>

\* services save_output: mkdir(parents=True, exist_ok=True) finds or creates
\* the directory, then the ExcelWriter writes the file
SaveServices ==
    /\ pc = "save"
    /\ variant = "services"
    /\ \E dir_existed \in BOOLEAN : out_dir_created' = ~dir_existed
    /\ out_file' = "written"
    /\ steps' = Append(steps, "store")
    /\ pc' = "preview"
    /\ UNCHANGED <<variant, has_input_arg, df, df_transformed, output_df,
                   failed, exit_code>>

\* services save_output raises: in mkdir (nothing created), or after mkdir
\* found or created the directory, when the ExcelWriter is constructed (no
\* file) or once it has opened the file, in to_excel or in the save on
\* leaving the with block (an empty or partial file stays)
SaveServicesError ==
    /\ pc = "save"
    /\ variant = "services"
    /\ \/ /\ out_dir_created' = FALSE
          /\ out_file' = "absent"
       \/ /\ \E dir_existed \in BOOLEAN : out_dir_created' = ~dir_existed
          /\ out_file' \in {"absent", "partial"}
    /\ steps' = Append(steps, "store")
    /\ Exit1("save")
    /\ UNCHANGED <<variant, has_input_arg, df, df_transformed, output_df>>

\* the preview is printed and main() returns
Finish ==
    /\ pc = "preview"
    /\ pc' = "exit"
    /\ exit_code' = 0
    /\ UNCHANGED <<variant, has_input_arg, df, df_transformed, output_df,
                   steps, failed, out_dir_created, out_file>>

Next ==
    \/ Usage
    \/ ParseArgs
    \/ ReadCategoryData
    \/ ReadCategoryDataError
    \/ ReadInputData
    \/ ReadInputDataError
    \/ TransformCategory
    \/ TransformCategoryError
    \/ TransformServices
    \/ TransformServicesError
    \/ StructureServices
    \/ StructureServicesError
    \/ SaveCategory
    \/ SaveCategoryError
    \/ SaveServices
    \/ SaveServicesError
    \/ Finish

Spec == Init /\ [][Next]_vars

(***************************************************************************)
(* Vocabulary of the properties                                            *)
(***************************************************************************)
\* the transform step of main() has returned: output_df is the table that
\* is handed to save_output
TransformDone ==
    \/ pc \in {"save", "preview"}
    \/ pc = "exit" /\ failed \in {"", "save"}

\* the transform step of main() has just returned
TransformReturns == pc = "save"

\* the transform step of main() raised
TransformFailed == pc = "exit" /\ failed \in {"transform", "structure"}

KeyColPresent == KeyCol \in Range(df.columns)

BlankKey == \E i \in DOMAIN df.rows : df.rows[i].key = NaNKey

HasRecord(d, e) == \E i \in DOMAIN d.rows : d.rows[i].key = e

\* the first record of d whose key is e
FirstRecord(d, e) ==
    LET K == {i \in DOMAIN d.rows : d.rows[i].key = e}
    IN  d.rows[CHOOSE i \in K : \A j \in K : i <= j]

\* two records of d have the same key, which is not blank
DuplicateKeys(d) ==
    LET named == SelectSeq(d.rows, LAMBDA r : r.key # NaNKey)
    IN  Cardinality({named[i].key : i \in DOMAIN named}) < Len(named)

\* the columns of a table other than the derived column
EntityColumns(t) == SelectSeq(t.columns, LAMBDA c : c # "Edu+Img")

WithoutDerived(t) ==
    LET cols == EntityColumns(t)
    IN  [index |-> t.index, columns |-> cols,
         data |-> [c \in Range(cols) |-> t.data[c]]]

Ok(t) == [ok |-> TRUE, table |-> t]

Fail == [ok |-> FALSE, table |-> NoTable]

\* what the category transform makes of sheet d, the derived column removed
CategoryOutcome(d, key_col, metrics, names) ==
    IF TransformRaises(d, key_col) THEN Fail
    ELSE Ok(WithoutDerived(TransformToColumnFormat(d, metrics, names)))

\* what read_input_data's column check, transform_data and
\* apply_output_structure make of sheet d
ServicesOutcome(d, key_col, metrics, names) ==
    IF key_col \notin Range(d.columns) \/ TransformDataRaises(d) THEN Fail
    ELSE LET t == TransformData(d, GetMetricColumns(d))
         IN  IF ApplyOutputStructureRaises(t, names) THEN Fail
             ELSE Ok(ApplyOutputStructure(t, metrics, names))

\* what the running script makes of sheet d
Outcome(d) ==
    IF variant = "category"
    THEN CategoryOutcome(d, category_col, metric_order, categories)
    ELSE ServicesOutcome(d, service_col, metric_order, service_order)

\* what the other script's transform makes of sheet d with this run's key
\* column and lists
OtherOutcome(d) ==
    IF variant = "category"
    THEN ServicesOutcome(d, category_col, metric_order, categories)
    ELSE CategoryOutcome(d, service_col, metric_order, service_order)

\* what this run made of df
RunOutcome == IF TransformDone THEN Ok(WithoutDerived(output_df)) ELSE Fail

\* s with the elements at positions i and i + 1 exchanged
SwapNext(s, i) ==
    [k \in DOMAIN s |-> IF k = i THEN s[i + 1] ELSE IF k = i + 1 THEN s[i]
                        ELSE s[k]]

\* the sheets that differ from d in the order of two neighbouring records or
\* of two neighbouring columns; every reordering is a chain of such exchanges
Reorderings(d) ==
    {Sheet(d.columns, SwapNext(d.rows, i)) : i \in 1..(Len(d.rows) - 1)}
    \cup {Sheet(SwapNext(d.columns, i), d.rows) :
             i \in 1..(Len(d.columns) - 1)}

RECURSIVE KeepFirst(_, _)
\* the records whose key is blank or is not in seen nor on an earlier record
KeepFirst(rows, seen) ==
    IF rows = <<>> THEN <<>>
    ELSE LET r == Head(rows)
         IN  IF r.key # NaNKey /\ r.key \in seen
             THEN KeepFirst(Tail(rows), seen)
             ELSE <<r>> \o KeepFirst(Tail(rows), seen \cup {r.key})

\* d without the later records of a repeated key
Dedup(d) == [d EXCEPT !.rows = KeepFirst(d.rows, {})]

\* every expected entity has a record, and no record has a blank key
AllEntitiesPresent ==
    /\ KeyColPresent
    /\ ~BlankKey
    /\ \A e \in Range(EntityOrder) : HasRecord(df, e)

\* the cells the transform is to show for entity e of sheet d, one for each
\* of the metrics: the value of the first record of e, 0 where there is no
\* record, no column or no value
BaseColumn(d, e, metrics) ==
    IF ~HasRecord(d, e) THEN [m \in Range(metrics) |-> Num(0)]
    ELSE LET cells == FirstRecord(d, e).cells
         IN  [m \in Range(metrics) |->
                IF m \notin DOMAIN cells THEN Num(0)
                ELSE IF cells[m].isna THEN Num(0)
                ELSE cells[m]]

(***************************************************************************)
(* Properties                                                              *)
(***************************************************************************)

\* C1 (shape invariant): for every sheet that has the key column and whose
\* records are expected entities, the transform of either script returns a
\* table with len(metric_order) rows and len(entity_order) entity columns.
C1_ShapeInvariant ==
    (/\ TransformDone \/ TransformFailed
     /\ KeyColPresent
     /\ \A i \in DOMAIN df.rows : df.rows[i].key \in Range(EntityOrder))
    => /\ TransformDone
       /\ Len(output_df.index) = Len(metric_order)
       /\ Len(EntityColumns(output_df)) = Len(EntityOrder)

\* C2 (zero-fill on a missing entity): when an expected entity has no record,
\* the transform of either script does not fail and the output has that
\* entity's column with 0 in every metric row.
C2_MissingEntityZeroFilled ==
    (/\ TransformDone \/ TransformFailed
     /\ KeyColPresent
     /\ ~BlankKey)
    => \A e \in Range(EntityOrder) :
          ~HasRecord(df, e)
          => /\ TransformDone
             /\ e \in Range(output_df.columns)
             /\ \A m \in Range(output_df.index) :
                   output_df.data[e][m] = Num(0)

\* C3 (order fidelity): the rows of the output are metric_order and its
\* entity columns are entity_order, whatever the order of the records and of
\* the columns of the sheet; a sheet with one record per key gives the same
\* output when two of its records or two of its columns change places.
C3_OrderFidelity ==
    TransformDone
    => /\ output_df.index = metric_order
       /\ EntityColumns(output_df) = EntityOrder
       /\ ~DuplicateKeys(df) =>
             \A d \in Reorderings(df) : Outcome(d) = RunOutcome

\* C4 (zero-fill on a missing metric): when the sheet has a record for every
\* expected entity and lacks the column of an expected metric, the transform
\* of either script does not fail, keeps the row of that metric and puts 0 in
\* each of its cells.
C4_MissingMetricZeroFilled ==
    ((TransformDone \/ TransformFailed) /\ AllEntitiesPresent)
    => \A m \in Range(metric_order) \ Range(df.columns) :
          /\ TransformDone
          /\ Len(output_df.index) = Len(metric_order)
          /\ m \in Range(output_df.index)
          /\ \A e \in Range(EntityOrder) : output_df.data[e][m] = Num(0)

\* C5 (null normalization): every cell of the table handed to save_output is
\* a number, a blank cell of a matched record shows as 0, and no cell of the
\* derived column is null.
C5_NoNullInOutput ==
    TransformDone
    => /\ \A c \in DOMAIN output_df.data :
             \A m \in DOMAIN output_df.data[c] : ~output_df.data[c][m].isna
       /\ \A e \in Range(EntityOrder) :
             HasRecord(df, e)
             => LET cells == FirstRecord(df, e).cells
                IN  \A m \in Range(metric_order) \cap DOMAIN cells :
                       cells[m].isna
                       => /\ m \in Range(output_df.index)
                          /\ output_df.data[e][m] = Num(0)

\* C6 (derived column): in the output of the category transform 'Edu+Img'
\* stands immediately to the right of 'Images', holds in every metric row the
\* sum of that row's 'Education' and 'Images' cells, and the base columns
\* keep their values and their order, those after 'Images' now after
\* 'Edu+Img'.
C6_EduImgColumn ==
    (variant = "category" /\ TransformDone)
    => LET cols == output_df.columns
           i == IndexOf(cols, "Images")
           k == IndexOf(categories, "Images")
       IN  /\ Len(cols) = Len(categories) + 1
           /\ SubSeq(cols, 1, i) = SubSeq(categories, 1, k)
           /\ cols[i + 1] = "Edu+Img"
           /\ SubSeq(cols, i + 2, Len(cols))
                 = SubSeq(categories, k + 1, Len(categories))
           /\ \A m \in Range(metric_order) :
                 /\ ~output_df.data["Edu+Img"][m].isna
                 /\ output_df.data["Edu+Img"][m].v
                       = output_df.data["Education"][m].v
                         + output_df.data["Images"][m].v
           /\ \A c \in Range(categories) :
                 output_df.data[c] = BaseColumn(df, c, metric_order)

\* a category run whose sheet gives 'Education' 1 and 'Images' 2 for a metric
\* and whose output shows 3 for it under 'Edu+Img'
C6_Witness ==
    /\ variant = "category"
    /\ TransformDone
    /\ \E m \in Range(metric_order) :
          /\ output_df.data["Education"][m] = Num(1)
          /\ output_df.data["Images"][m] = Num(2)
          /\ output_df.data["Edu+Img"][m] = Num(3)

\* C7 (duplicate key, first wins): when several records have the same key,
\* the transform step ends as it does on the sheet without the later ones
\* (same table, or failure in both), and every cell of that entity's column
\* shows the value of the first of them.  No later step changes df or
\* output_df, so the table is looked at when the transform step returns.
C7_FirstWins ==
    ((TransformReturns \/ TransformFailed) /\ KeyColPresent
     /\ DuplicateKeys(df))
    => /\ RunOutcome = Outcome(Dedup(df))
       /\ TransformReturns =>
             \A e \in Range(EntityOrder) :
                HasRecord(df, e) =>
                   output_df.data[e] =
                      IF variant = "category"
                      THEN BaseColumn(df, e, output_df.index)
                      ELSE LET cells == FirstRecord(df, e).cells
                           IN  [m \in Range(output_df.index) |-> cells[m]]

\* a run of the services script whose sheet has two records of one service
\* with different values for a metric and a record of every other service,
\* and whose output shows the value of the first of the two
C7_Witness ==
    /\ variant = "services"
    /\ TransformDone
    /\ \E i, j \in DOMAIN df.rows, m \in Range(output_df.index) :
          /\ i < j
          /\ df.rows[i].key = df.rows[j].key
          /\ df.rows[i].key \in Range(EntityOrder)
          /\ m \in Range(df.columns)
          /\ ~df.rows[i].cells[m].isna
          /\ ~df.rows[j].cells[m].isna
          /\ df.rows[i].cells[m] # df.rows[j].cells[m]
          /\ output_df.data[df.rows[i].key][m] = df.rows[i].cells[m]

IsPrefix(s, t) == Len(s) <= Len(t) /\ s = SubSeq(t, 1, Len(s))

\* C8 (fatal errors write nothing): a run that ends with status 1 has gone
\* through read, transform, store in that order up to the failing step, has
\* written no output file and has created no output directory.
C8_FatalWritesNothing ==
    (pc = "exit" /\ exit_code = 1)
    => /\ IsPrefix(steps, <<"read", "transform", "store">>)
       /\ out_file = "absent"
       /\ ~out_dir_created

\* C9 (exit code): a run ends with status 0 exactly when read, transform and
\* store all succeeded, with status 1 otherwise, and a status other than 0
\* comes only from a missing argument, a failed read, a missing key column
\* or a failed write, never from an entity or a metric that is not found.
C9_ExitCode ==
    pc = "exit"
    => /\ exit_code = 0 <=>
             (failed = "" /\ steps = <<"read", "transform", "store">>
              /\ out_file = "written")
       /\ exit_code \in {0, 1}
       /\ exit_code # 0 =>
             \/ ~has_input_arg
             \/ failed \in {"read", "save"}
             \/ ~KeyColPresent
             \/ BlankKey

\* C10 (one transform): on every sheet the transform of the running script
\* and the transform of the other script, run with the same key column,
\* metric_order and entity_order, end alike: the same table of
\* (metric, entity) cells, the derived column aside, or failure in both.
C10_SameTransform ==
    (TransformDone \/ TransformFailed) => RunOutcome = OtherOutcome(df)

====
